---- MODULE Spec2Model ----
(***************************************************************************)
(* Ledgerwiseai: interactive advisory tools around a schema-constrained    *)
(* remote completion.  One state machine covers the seven scripts; the     *)
(* variable tool says which script is running.  Every action is one read   *)
(* of stdin (or one consumption of the next_query buffer) followed by the  *)
(* code that runs until the next read.                                     *)
(*                                                                         *)
(* Text is modelled by TLA+ strings, on which strip, lower, upper,         *)
(* endswith and substring search are computed character by character.      *)
(* Amounts are integers (NGN); a Python float is a record [kind, v] so     *)
(* that nan and inf stay distinct from finite values.  relevance_score is  *)
(* kept in tenths (10 stands for 1.0).                                     *)
(***************************************************************************)
EXTENDS Integers, Sequences, FiniteSets, TLC

VARIABLES tool, pc, next_query, industry, nums, filepath, report, ev

vars == <<tool, pc, next_query, industry, nums, filepath, report, ev>>

(***************************************************************************)
(* str methods                                                             *)
(***************************************************************************)
UpperAlphabet == "ABCDEFGHIJKLMNOPQRSTUVWXYZ"
LowerAlphabet == "abcdefghijklmnopqrstuvwxyz"
Digits == "0123456789"

ch(s, i) == SubSeq(s, i, i)

IndexIn(c, alphabet) ==
  IF \E k \in 1..Len(alphabet) : ch(alphabet, k) = c
  THEN CHOOSE k \in 1..Len(alphabet) : ch(alphabet, k) = c
  ELSE 0

Letters(alphabet) == {ch(alphabet, k) : k \in 1..Len(alphabet)}

\* The character maps of str.lower() and str.upper() on ASCII letters.
ToLower == [c \in Letters(UpperAlphabet) |-> ch(LowerAlphabet, IndexIn(c, UpperAlphabet))]
ToUpper == [c \in Letters(LowerAlphabet) |-> ch(UpperAlphabet, IndexIn(c, LowerAlphabet))]

RECURSIVE MapChars(_, _)
MapChars(s, map) ==
  IF Len(s) = 0 THEN ""
  ELSE (IF ch(s, 1) \in DOMAIN map THEN map[ch(s, 1)] ELSE ch(s, 1))
       \o MapChars(SubSeq(s, 2, Len(s)), map)

\* str.lower()
lower(s) == MapChars(s, ToLower)

\* str.upper()
upper(s) == MapChars(s, ToUpper)

RECURSIVE lstrip(_)
lstrip(s) == IF Len(s) > 0 /\ ch(s, 1) = " " THEN lstrip(SubSeq(s, 2, Len(s))) ELSE s

RECURSIVE rstrip(_)
rstrip(s) == IF Len(s) > 0 /\ ch(s, Len(s)) = " " THEN rstrip(SubSeq(s, 1, Len(s) - 1)) ELSE s

\* str.strip()
strip(s) == rstrip(lstrip(s))

\* str.endswith(suffix)
endswith(s, suffix) ==
  Len(s) >= Len(suffix) /\ SubSeq(s, Len(s) - Len(suffix) + 1, Len(s)) = suffix

\* `k in s` on two strings
contains(s, k) == \E i \in 1..(Len(s) - Len(k) + 1) : SubSeq(s, i, i + Len(k) - 1) = k

RECURSIVE RemoveCommas(_)
\* str.replace(',', '')
RemoveCommas(s) ==
  IF Len(s) = 0 THEN ""
  ELSE (IF ch(s, 1) = "," THEN "" ELSE ch(s, 1)) \o RemoveCommas(SubSeq(s, 2, Len(s)))

(***************************************************************************)
(* float                                                                   *)
(***************************************************************************)
Finite(n) == [kind |-> "finite", v |-> n]
NaN == [kind |-> "nan", v |-> 0]
Inf == [kind |-> "inf", v |-> 1]
NegInf == [kind |-> "inf", v |-> -1]

\* x < 0 and x == 0 on floats (every comparison with nan is False)
FloatNegative(x) == x.kind # "nan" /\ x.v < 0
FloatIsZero(x) == x.kind = "finite" /\ x.v = 0

\* a - b on floats
FloatSub(a, b) ==
  IF a.kind = "nan" \/ b.kind = "nan" THEN NaN
  ELSE IF a.kind = "inf" /\ b.kind = "inf" THEN (IF a.v = b.v THEN NaN ELSE a)
  ELSE IF a.kind = "inf" THEN a
  ELSE IF b.kind = "inf" THEN [kind |-> "inf", v |-> 0 - b.v]
  ELSE Finite(a.v - b.v)

AllDigits(s) == Len(s) > 0 /\ \A i \in 1..Len(s) : IndexIn(ch(s, i), Digits) > 0

RECURSIVE DigitsValue(_)
DigitsValue(s) ==
  IF Len(s) = 0 THEN 0
  ELSE 10 * DigitsValue(SubSeq(s, 1, Len(s) - 1)) + (IndexIn(ch(s, Len(s)), Digits) - 1)

\* float(text) for the literals the model's inputs use: optionally signed
\* decimal integers, nan, inf, infinity (any case, surrounding blanks allowed).
\* Anything else raises ValueError (ok = FALSE).
ParseSigned(neg, body) ==
  IF AllDigits(body)
  THEN [ok |-> TRUE, val |-> Finite(IF neg THEN 0 - DigitsValue(body) ELSE DigitsValue(body))]
  ELSE IF body = "nan" THEN [ok |-> TRUE, val |-> NaN]
  ELSE IF body \in {"inf", "infinity"} THEN [ok |-> TRUE, val |-> IF neg THEN NegInf ELSE Inf]
  ELSE [ok |-> FALSE, val |-> NaN]

ParseLowered(t) ==
  IF Len(t) > 0 /\ ch(t, 1) \in {"-", "+"}
  THEN ParseSigned(ch(t, 1) = "-", SubSeq(t, 2, Len(t)))
  ELSE ParseSigned(FALSE, t)

ParseFloat(text) == ParseLowered(lower(strip(text)))

(***************************************************************************)
(* The remote service.  One behaviour of the service for one request:      *)
(* constructing the client fails, or the request fails (connectivity,      *)
(* authentication, quota), or the service answers with a raw object, which *)
(* the structured-output library validates against the response model.     *)
(***************************************************************************)
NoReport == [schema |-> "none"]

Remote(client, call, raw) == [client |-> client, call |-> call, raw |-> raw]

RemoteBehaviours(raws) ==
  {Remote("fail", "none", NoReport), Remote("ok", "fail", NoReport)}
    \cup {Remote("ok", "reply", r) : r \in raws}

\* What a completion function hands back to its caller: raised says that an
\* exception left the function, ret names the return statement that ran,
\* client and remote say whether the client was constructed and the request sent.
Returned(ret, r, client, remote) ==
  [raised |-> FALSE, ret |-> ret, report |-> r, client |-> client, remote |-> remote]

Raised(client, remote) ==
  [raised |-> TRUE, ret |-> "none", report |-> NoReport, client |-> client, remote |-> remote]

AdviceTypes == {"BUSINESS_STRATEGY", "TAX_COMPLIANCE", "IRRELEVANT"}

(***************************************************************************)
(* advise.py                                                               *)
(***************************************************************************)
DetailedBusinessAdvice(score, type, title, summary, explanation, steps, risks) ==
  [schema |-> "DetailedBusinessAdvice", relevance_score |-> score, advice_type |-> type,
   advice_title |-> title, key_points_summary |-> summary,
   detailed_explanation |-> explanation, actionable_steps |-> steps,
   potential_risks_or_considerations |-> risks]

\* Validation of a raw object against DetailedBusinessAdvice: the float field
\* carries no range constraint, the Literal field admits its three members.
ValidDetailedBusinessAdvice(r) ==
  r.schema = "DetailedBusinessAdvice" /\ r.advice_type \in AdviceTypes

\* A fallback that lists a step.
DetailedFallback_with_steps ==
  DetailedBusinessAdvice(0, "IRRELEVANT", "System Error: API Failure",
    "The advisory service is currently unavailable due to a connection or API error.",
    "Please check your AWS configuration or model access.", <<"Retry later.">>, "N/A")

DetailedFallback ==
  DetailedBusinessAdvice(0, "IRRELEVANT", "System Error: API Failure",
    "The advisory service is currently unavailable due to a connection or API error.",
    "Please check your AWS configuration or model access.", <<>>, "N/A")

\* Raw objects the service may answer with (scores in tenths).
DetailedRaws ==
  { DetailedBusinessAdvice(10, "TAX_COMPLIANCE", "VAT Registration", "Register for VAT.",
      "Companies above the threshold register with FIRS.", <<"Register", "File monthly">>, "Penalties apply."),
    DetailedBusinessAdvice(0, "IRRELEVANT", "Query Irrelevant",
      "I am only programmed to provide business and tax advice specific to Nigeria. Please ask a relevant question.",
      "N/A", <<>>, "N/A"),
    DetailedBusinessAdvice(15, "BUSINESS_STRATEGY", "Growth", "Expand.", "Open a second outlet.", <<"Plan">>, "Cash flow."),
    DetailedBusinessAdvice(-5, "TAX_COMPLIANCE", "CIT", "", "", <<>>, ""),
    DetailedBusinessAdvice(10, "GENERAL", "Other", "Other.", "Other.", <<>>, "N/A") }

\* get_nigerian_advice without its except clause: the exception propagates.
get_nigerian_advice_advise_raising(user_query, remote) ==
  IF remote.client = "fail" THEN Raised(TRUE, FALSE)
  ELSE IF remote.call = "fail" \/ ~ValidDetailedBusinessAdvice(remote.raw) THEN Raised(TRUE, TRUE)
  ELSE Returned("remote", remote.raw, TRUE, TRUE)

get_nigerian_advice_advise(user_query, remote) ==
  IF remote.client = "fail" THEN Returned("fallback", DetailedFallback, TRUE, FALSE)
  ELSE IF remote.call = "fail" \/ ~ValidDetailedBusinessAdvice(remote.raw)
       THEN Returned("fallback", DetailedFallback, TRUE, TRUE)
  ELSE Returned("remote", remote.raw, TRUE, TRUE)

(***************************************************************************)
(* nigerian_advisor.py and irrelevant/chatbot.py                           *)
(***************************************************************************)
BusinessAdvice(score, type, title, advice) ==
  [schema |-> "BusinessAdvice", relevance_score |-> score, advice_type |-> type,
   advice_title |-> title, advice |-> advice]

ValidBusinessAdvice(r) == r.schema = "BusinessAdvice" /\ r.advice_type \in AdviceTypes

BusinessAdviceFallback ==
  BusinessAdvice(0, "IRRELEVANT", "System Error: API Failure",
    "The advisory service is currently unavailable due to a connection or API error. Please check your AWS configuration or model access.")

BusinessAdviceRaws ==
  { BusinessAdvice(10, "TAX_COMPLIANCE", "VAT Registration", "Register with FIRS."),
    BusinessAdvice(0, "IRRELEVANT", "Query Irrelevant",
      "I am only programmed to provide business and tax advice specific to Nigeria. Please ask a relevant question."),
    BusinessAdvice(15, "BUSINESS_STRATEGY", "Growth", "Open a second outlet."),
    BusinessAdvice(-5, "TAX_COMPLIANCE", "CIT", ""),
    BusinessAdvice(10, "GENERAL", "Other", "Other.") }

get_nigerian_advice_advisor(user_query, remote) ==
  IF remote.client = "fail" THEN Returned("fallback", BusinessAdviceFallback, TRUE, FALSE)
  ELSE IF remote.call = "fail" \/ ~ValidBusinessAdvice(remote.raw)
       THEN Returned("fallback", BusinessAdviceFallback, TRUE, TRUE)
  ELSE Returned("remote", remote.raw, TRUE, TRUE)

ChatbotFallback ==
  BusinessAdvice(0, "IRRELEVANT", "System Error: API Failure",
    "The advisory service is currently unavailable due to a connection or API error. Please check your AWS configuration or model access.")

get_nigerian_advice_chatbot(user_query, remote) ==
  IF remote.client = "fail" THEN Returned("fallback", ChatbotFallback, TRUE, FALSE)
  ELSE IF remote.call = "fail" \/ ~ValidBusinessAdvice(remote.raw)
       THEN Returned("fallback", ChatbotFallback, TRUE, TRUE)
  ELSE Returned("remote", remote.raw, TRUE, TRUE)

(***************************************************************************)
(* analyst.py                                                              *)
(***************************************************************************)
BusinessAnalysisReport(profitability, growth, efficiency, valuation, tax, loan, advice) ==
  [schema |-> "BusinessAnalysisReport", profitability_analysis |-> profitability,
   growth_and_future_projection |-> growth, business_efficiency_analysis |-> efficiency,
   estimated_business_valuation |-> valuation, tax_compliance_overview |-> tax,
   loan_eligibility_assessment |-> loan, actionable_advice |-> advice]

\* The raw objects of the model carry every field with its declared type, so
\* validation of this schema (strings and a list of strings) accepts them all.
ValidBusinessAnalysisReport(r) == r.schema = "BusinessAnalysisReport"

AnalysisFallback ==
  BusinessAnalysisReport("Error: Could not generate analysis. API connection failed.",
    "N/A", "N/A", "N/A", "N/A. Check AWS credentials and model access for Llama 3 70B.",
    "N/A", <<"API connection failed.">>)

AnalysisRaws ==
  { BusinessAnalysisReport("Net profit is 200,000 NGN.", "Margin above benchmark.", "Costs are 60% of revenue.",
      "About 5m NGN. This is a theoretical estimate for informational purposes only and not a formal valuation.",
      "Small Company.", "Likely eligible.", <<"Cut costs", "Raise prices">>),
    BusinessAnalysisReport("", "", "", "", "", "", <<>>) }

get_business_analysis_analyst(user_data, remote) ==
  IF remote.client = "fail" THEN Returned("fallback", AnalysisFallback, TRUE, FALSE)
  ELSE IF remote.call = "fail" \/ ~ValidBusinessAnalysisReport(remote.raw)
       THEN Returned("fallback", AnalysisFallback, TRUE, TRUE)
  ELSE Returned("remote", remote.raw, TRUE, TRUE)

(***************************************************************************)
(* irrelevant/nigerian_busanalyst.py                                       *)
(***************************************************************************)
MonthlyAnalysisReport(margin, summary, benchmark, projection, areas, advice) ==
  [schema |-> "MonthlyAnalysisReport", profit_margin_percentage |-> margin,
   performance_summary |-> summary, industry_benchmark |-> benchmark,
   future_projection |-> projection, key_areas_for_improvement |-> areas,
   strategic_growth_advice |-> advice]

ValidMonthlyAnalysisReport(r) == r.schema = "MonthlyAnalysisReport"

MonthlyFallback ==
  MonthlyAnalysisReport(0, "Error: Could not generate analysis.", "N/A", "N/A",
    <<"API connection failed. Check AWS credentials and model access.">>,
    "Unable to provide advice due to a system error. Please ensure your AWS Bedrock environment is configured correctly for Llama 3 70B.")

MonthlyRaws ==
  { MonthlyAnalysisReport(40, "Profitable month.", "Retail averages 15%.", "Stable.",
      <<"Variable costs are high", "Diversify">>, "Grow online sales."),
    MonthlyAnalysisReport(-20, "", "", "", <<>>, "") }

get_business_analysis_busanalyst(user_data, remote) ==
  IF remote.client = "fail" THEN Returned("fallback", MonthlyFallback, TRUE, FALSE)
  ELSE IF remote.call = "fail" \/ ~ValidMonthlyAnalysisReport(remote.raw)
       THEN Returned("fallback", MonthlyFallback, TRUE, TRUE)
  ELSE Returned("remote", remote.raw, TRUE, TRUE)

(***************************************************************************)
(* Tabular files.  A file is missing, unreadable, or a table: its column   *)
(* headers in declared order and its rows, each a sequence of cells        *)
(* aligned with the headers.  A cell is the text pandas shows for it; an   *)
(* empty cell is "nan".                                                    *)
(***************************************************************************)
Table(cols, rows) == [state |-> "table", cols |-> cols, rows |-> rows]
MissingFile == [state |-> "missing", cols |-> <<>>, rows |-> <<>>]
UnreadableFile == [state |-> "unreadable", cols |-> <<>>, rows |-> <<>>]

\* The table hi.py writes to large_company_data.xlsx.
SampleTable ==
  Table(<<"Metric", "Amount_NGN">>,
        << <<"Total Revenue", "145000000">>, <<"Cost of Sales", "60000000">>,
           <<"Operating Expenses", "35000000">>, <<"Other Income (Non-taxable)", "2000000">>,
           <<"Depreciation (Non-allowable)", "5000000">>, <<"Tax", "4500000">> >>)

PaidTable ==
  Table(<<"Description", "Amount">>,
        << <<"Revenue", "145000000">>, <<"Profit Tax Paid", "4500000">>,
           <<"Output VAT", "10000000">>, <<"Input VAT", "4000000">> >>)

NoRevenueTable ==
  Table(<<"Item", "Value">>, << <<"Rent", "1200000">>, <<"Tax Paid", "300000">> >>)

ZeroRevenueTable ==
  Table(<<"Particulars", "NGN">>, << <<"Revenue", "0">>, <<"CIT Paid", "100">> >>)

NoColumnsTable ==
  Table(<<"Name", "Figure">>, << <<"Revenue", "145000000">> >>)

\* An amount typed with thousands separators stays text in the data frame.
TextAmountTable ==
  Table(<<"Details", "Total">>, << <<"Sales", "1,200,000">> >>)

\* The revenue row has an empty amount cell.
EmptyAmountTable ==
  Table(<<"Metric", "Amount">>, << <<"Total Revenue", "nan">>, <<"Tax Paid", "100">> >>)

\* A label column without an amount column, and the reverse.
LabelOnlyTable ==
  Table(<<"Item", "Figure">>, << <<"Revenue", "145000000">> >>)

AmountOnlyTable ==
  Table(<<"Name", "Total">>, << <<"Revenue", "145000000">> >>)

\* Two label columns and two amount columns.
TwoLabelsTable ==
  Table(<<"Ref", "DESCRIPTION", "Metric", "Value (NGN)", "Amount">>,
        << <<"1", "Total Revenue", "Rent", "145000000", "700">>,
           <<"2", "Rent", "Total Revenue", "1200000", "900">> >>)

\* Rows that match lower-priority keywords come before the rows that match
\* higher-priority ones.
SalesFirstTable ==
  Table(<<"Metric", "Amount">>,
        << <<"Sales", "100">>, <<"Net Revenue", "200">>, <<"Total Revenue", "500">>,
           <<"Revenue (other)", "300">>, <<"VAT Collected", "10">>, <<"Output VAT", "20">>,
           <<"Output VAT (adjusted)", "30">> >>)

\* A row for another quantity whose label contains a revenue keyword comes
\* before the row labelled with the keyword itself.
CostFirstTable ==
  Table(<<"Metric", "Amount">>,
        << <<"Cost of Sales", "60000000">>, <<"Sales", "145000000">>,
           <<"Operating Expenses", "35000000">> >>)

\* The first header contains a label synonym and an amount synonym.
CostItemTable ==
  Table(<<"Cost Item", "Amount">>,
        << <<"Revenue", "145000000">>, <<"Cost of Sales", "60000000">> >>)

FileStates ==
  {MissingFile, UnreadableFile, SampleTable, PaidTable, NoRevenueTable, ZeroRevenueTable,
   NoColumnsTable, TextAmountTable, EmptyAmountTable, LabelOnlyTable, AmountOnlyTable,
   TwoLabelsTable, SalesFirstTable, CostFirstTable, CostItemTable}

metric_col_names == <<"metric", "item", "description", "particulars", "details">>
\* An amount synonym list without the two synonyms found in 'Amount_NGN'.
amount_col_names_short == <<"value", "total", "cost">>

amount_col_names == <<"amount", "value", "ngn", "total", "cost">>

\* A column search that keeps the last matching column instead of the first.
FirstColumn_last(cols, names) ==
  LET hit(i) == \E n \in 1..Len(names) : contains(lower(cols[i]), names[n])
  IN  IF \E i \in 1..Len(cols) : hit(i)
      THEN CHOOSE i \in 1..Len(cols) : hit(i) /\ \A j \in (i + 1)..Len(cols) : ~hit(j)
      ELSE 0

\* next((col for col in df.columns if any(name in str(col).lower() for name in names)), None):
\* the index of the first matching column, 0 for None.
FirstColumn(cols, names) ==
  LET hit(i) == \E n \in 1..Len(names) : contains(lower(cols[i]), names[n])
  IN  IF \E i \in 1..Len(cols) : hit(i)
      THEN CHOOSE i \in 1..Len(cols) : hit(i) /\ \A j \in 1..(i - 1) : ~hit(j)
      ELSE 0

\* df[df[metric_col].astype(str).str.contains(keyword, case=False, na=False)]:
\* the indices of the matching rows.
MatchingRows(t, metric_col, keyword) ==
  {i \in 1..Len(t.rows) : contains(lower(t.rows[i][metric_col]), lower(keyword))}

MinOf(S) == CHOOSE i \in S : \A j \in S : i <= j

\* float(row[amount_col].iloc[0]): [raised, val]; raised is the ValueError of
\* float() on the cell.
FloatCell(f) == [raised |-> ~f.ok, val |-> f.val]

FindAmong(t, metric_col, amount_col, keywords, hits) ==
  IF hits = {} THEN [raised |-> FALSE, val |-> Finite(0)]
  ELSE FloatCell(ParseFloat(
         t.rows[MinOf(MatchingRows(t, metric_col, keywords[MinOf(hits)]))][amount_col]))

\* find_value: the keywords are tried in order and the first row matching the
\* first keyword that matches any row gives the amount; 0.0 when none matches.
find_value(t, metric_col, amount_col, keywords) ==
  FindAmong(t, metric_col, amount_col, keywords,
            {k \in 1..Len(keywords) : MatchingRows(t, metric_col, keywords[k]) # {}})

\* An extension test that looks for the extension anywhere in the path.
SupportedExtension_anywhere(path) ==
  \/ contains(lower(path), ".csv")
  \/ contains(lower(path), ".xlsx")
  \/ contains(lower(path), ".xls")

SupportedExtension(path) ==
  \/ endswith(lower(path), ".csv")
  \/ endswith(lower(path), ".xlsx")
  \/ endswith(lower(path), ".xls")

NoneFloat == [kind |-> "none", v |-> 0]

\* The except clauses of load_financial_data without the last one.
Handlers_without_catch_all == {"FileNotFoundError", "KeyError", "ValueError"}

\* The except clauses of load_financial_data; "Exception" stands for every
\* exception that is none of the three named before it.
Handlers == {"FileNotFoundError", "KeyError", "ValueError", "Exception"}

\* The try block raised `error`: the matching except clause returns the failure
\* tuple; without a matching clause the exception leaves the function (escaped).
LoadFailure(error, read) ==
  [ok |-> FALSE, df |-> MissingFile, total_revenue |-> NoneFloat, profit_tax_paid |-> Finite(0),
   output_vat |-> Finite(0), input_vat |-> Finite(0), error |-> error, read |-> read,
   escaped |-> error \notin Handlers]

LoadSuccess(df, revenue, paid, out, inp) ==
  [ok |-> TRUE, df |-> df, total_revenue |-> revenue, profit_tax_paid |-> paid,
   output_vat |-> out, input_vat |-> inp, error |-> "none", read |-> TRUE, escaped |-> FALSE]

(***************************************************************************)
(* nigerian_taxcalc.py                                                     *)
(***************************************************************************)
\* The four values without the test that revenue is not 0.0.
ResolveValues_without_revenue_check(fs, revenue, paid, out, inp) ==
  IF revenue.raised \/ paid.raised \/ out.raised \/ inp.raised THEN LoadFailure("ValueError", TRUE)
  ELSE LoadSuccess(fs, revenue.val, paid.val, out.val, inp.val)

\* The checks after the four find_value calls.
ResolveValues(fs, revenue, paid, out, inp) ==
  IF revenue.raised THEN LoadFailure("ValueError", TRUE)
  ELSE IF FloatIsZero(revenue.val) THEN LoadFailure("ValueError", TRUE)
  ELSE IF paid.raised \/ out.raised \/ inp.raised THEN LoadFailure("ValueError", TRUE)
  ELSE LoadSuccess(fs, revenue.val, paid.val, out.val, inp.val)

\* Column identification that falls back on the first and the last column.
ResolveColumns_defaulting(fs, metric_col, amount_col) ==
  ResolveValues(fs,
    find_value(fs, IF metric_col = 0 THEN 1 ELSE metric_col,
               IF amount_col = 0 THEN Len(fs.cols) ELSE amount_col,
               <<"total revenue", "revenue", "sales">>),
    [raised |-> FALSE, val |-> Finite(0)], [raised |-> FALSE, val |-> Finite(0)],
    [raised |-> FALSE, val |-> Finite(0)])

ResolveColumns(fs, metric_col, amount_col) ==
  IF metric_col = 0 \/ amount_col = 0 THEN LoadFailure("KeyError", TRUE)
  ELSE ResolveValues(fs,
         find_value(fs, metric_col, amount_col, <<"total revenue", "revenue", "sales">>),
         find_value(fs, metric_col, amount_col, <<"profit tax paid", "cit paid", "tax paid">>),
         find_value(fs, metric_col, amount_col, <<"output vat", "vat collected", "vat on sales">>),
         find_value(fs, metric_col, amount_col, <<"input vat", "vat paid on inputs", "vat on purchases">>))

load_financial_data(path, fs) ==
  IF ~SupportedExtension(path) THEN LoadFailure("ValueError", FALSE)
  ELSE IF fs.state = "missing" THEN LoadFailure("FileNotFoundError", TRUE)
  ELSE IF fs.state = "unreadable" THEN LoadFailure("Exception", TRUE)
  ELSE ResolveColumns(fs, FirstColumn(fs.cols, metric_col_names),
                      FirstColumn(fs.cols, amount_col_names))

ComplianceStatuses ==
  {"COMPLIANT (Paid in Full)", "NON_COMPLIANT (Underpaid)", "OVERPAID (Refund Due)", "UNKNOWN (Check Data)"}

TaxCalculationResult(profit, rate, cit, tet, due, paid, status_amount, vat_out, vat_in, vat_due, status, recommendation, growth) ==
  [schema |-> "TaxCalculationResult", taxable_profit |-> profit, cit_rate_applied |-> rate,
   cit_liability |-> cit, education_tax_liability |-> tet, total_profit_tax_due |-> due,
   profit_tax_paid_by_user |-> paid, profit_tax_payment_status_amount |-> status_amount,
   vat_output_collected |-> vat_out, vat_input_paid |-> vat_in, vat_remittable_due |-> vat_due,
   compliance_status |-> status, compliance_recommendation |-> recommendation,
   business_growth_advice |-> growth]

ValidTaxCalculationResult(r) ==
  r.schema = "TaxCalculationResult" /\ r.compliance_status \in ComplianceStatuses

\* A fallback whose status is not the error member.
get_fallback_response_noncompliant(recommendation, profit_tax_paid) ==
  TaxCalculationResult(Finite(0), Finite(0), Finite(0), Finite(0), Finite(0), profit_tax_paid,
    Finite(0), Finite(0), Finite(0), Finite(0), "NON_COMPLIANT (Underpaid)", recommendation,
    "N/A. Cannot provide business advice due to error.")

\* A fallback that ignores its profit_tax_paid argument.
get_fallback_response_zero_paid(recommendation, profit_tax_paid) ==
  TaxCalculationResult(Finite(0), Finite(0), Finite(0), Finite(0), Finite(0), Finite(0),
    Finite(0), Finite(0), Finite(0), Finite(0), "UNKNOWN (Check Data)", recommendation,
    "N/A. Cannot provide business advice due to error.")

get_fallback_response(recommendation, profit_tax_paid) ==
  TaxCalculationResult(Finite(0), Finite(0), Finite(0), Finite(0), Finite(0), profit_tax_paid,
    Finite(0), Finite(0), Finite(0), Finite(0), "UNKNOWN (Check Data)", recommendation,
    "N/A. Cannot provide business advice due to error.")

\* os.environ.get("AWS_REGION", "us-east-1") with the variable unset
AWS_REGION == "us-east-1"

TaxRaws ==
  { TaxCalculationResult(Finite(50000000), Finite(30), Finite(15000000), Finite(1500000),
      Finite(16500000), Finite(4500000), Finite(-12000000), Finite(10000000), Finite(4000000),
      Finite(6000000), "NON_COMPLIANT (Underpaid)", "Pay the balance before the deadline.",
      "Reduce cost of sales."),
    TaxCalculationResult(Finite(50000000), Finite(20), Finite(10000000), Finite(1500000),
      Finite(12000000), Finite(0), Finite(0), Finite(10000000), Finite(4000000),
      Finite(5000000), "COMPLIANT (Paid in Full)", "An earlier filing failed; refile.",
      "Grow exports."),
    TaxCalculationResult(Finite(0), Finite(0), Finite(0), Finite(0), Finite(0), Finite(0),
      Finite(0), Finite(0), Finite(0), Finite(0), "UNKNOWN (Check Data)", "", ""),
    TaxCalculationResult(Finite(1), Finite(30), Finite(1), Finite(1), Finite(2), Finite(0),
      Finite(-2), Finite(0), Finite(0), Finite(0), "PENDING", "Wait.", "Wait.") }

\* calculate_tax_and_assess without the test of the loaded data frame.
AssessLoaded_without_load_check(loaded, remote) ==
  IF remote.client = "fail"
  THEN Returned("fallback",
         get_fallback_response("AWS setup or connectivity failed. Check credentials and Bedrock access in region "
                                 \o AWS_REGION \o ".", Finite(0)),
         TRUE, FALSE)
  ELSE IF remote.call = "fail" \/ ~ValidTaxCalculationResult(remote.raw)
  THEN Returned("fallback",
         get_fallback_response("API request failed. Check model permissions and AWS access for Llama 3 70B.",
                               loaded.profit_tax_paid),
         TRUE, TRUE)
  ELSE Returned("remote", remote.raw, TRUE, TRUE)

\* calculate_tax_and_assess after load_financial_data returned `loaded`.
AssessLoaded(loaded, remote) ==
  IF loaded.escaped THEN Raised(FALSE, FALSE)
  ELSE IF ~loaded.ok
  THEN Returned("fallback",
         get_fallback_response("Data loading failed. Check file path, existence, and column names.", Finite(0)),
         FALSE, FALSE)
  ELSE IF remote.client = "fail"
  THEN Returned("fallback",
         get_fallback_response("AWS setup or connectivity failed. Check credentials and Bedrock access in region "
                                 \o AWS_REGION \o ".", Finite(0)),
         TRUE, FALSE)
  ELSE IF remote.call = "fail" \/ ~ValidTaxCalculationResult(remote.raw)
  THEN Returned("fallback",
         get_fallback_response("API request failed. Check model permissions and AWS access for Llama 3 70B.",
                               loaded.profit_tax_paid),
         TRUE, TRUE)
  ELSE Returned("remote", remote.raw, TRUE, TRUE)

calculate_tax_and_assess_taxcalc(business_size, path, fs, remote) ==
  AssessLoaded(load_financial_data(path, fs), remote)

(***************************************************************************)
(* irrelevant/taxcalc.py                                                   *)
(***************************************************************************)
\* The regular expression 'revenue|sales' of str.contains.
RevenueRows(t, metric_col) ==
  MatchingRows(t, metric_col, "revenue") \cup MatchingRows(t, metric_col, "sales")

OldResolveRevenue(fs, f) ==
  IF ~f.ok THEN LoadFailure("ValueError", TRUE)
  ELSE LoadSuccess(fs, f.val, Finite(0), Finite(0), Finite(0))

OldResolveColumns(fs, metric_col, amount_col) ==
  \* total_revenue is unbound at the return: UnboundLocalError
  IF metric_col = 0 \/ amount_col = 0 THEN LoadFailure("Exception", TRUE)
  ELSE IF RevenueRows(fs, metric_col) = {} THEN LoadFailure("KeyError", TRUE)
  ELSE OldResolveRevenue(fs, ParseFloat(fs.rows[MinOf(RevenueRows(fs, metric_col))][amount_col]))

load_financial_data_old(path, fs) ==
  IF ~SupportedExtension(path) THEN LoadFailure("ValueError", FALSE)
  ELSE IF fs.state = "missing" THEN LoadFailure("FileNotFoundError", TRUE)
  ELSE IF fs.state = "unreadable" THEN LoadFailure("Exception", TRUE)
  ELSE OldResolveColumns(fs, FirstColumn(fs.cols, metric_col_names),
                         FirstColumn(fs.cols, amount_col_names))

OldComplianceStatuses == {"COMPLIANT", "NON_COMPLIANT", "UNKNOWN"}

OldTaxCalculationResult(profit, rate, cit, tet, due, status, recommendation) ==
  [schema |-> "OldTaxCalculationResult", taxable_profit |-> profit, cit_rate_applied |-> rate,
   cit_liability |-> cit, education_tax_liability |-> tet, total_tax_due |-> due,
   compliance_status |-> status, compliance_recommendation |-> recommendation]

ValidOldTaxCalculationResult(r) ==
  r.schema = "OldTaxCalculationResult" /\ r.compliance_status \in OldComplianceStatuses

OldTaxFallback(recommendation) ==
  OldTaxCalculationResult(Finite(0), Finite(0), Finite(0), Finite(0), Finite(0), "UNKNOWN",
                          recommendation)

OldTaxRaws ==
  { OldTaxCalculationResult(Finite(50000000), Finite(30), Finite(15000000), Finite(1500000),
      Finite(16500000), "COMPLIANT", "File returns on time."),
    OldTaxCalculationResult(Finite(50000000), Finite(20), Finite(10000000), Finite(1500000),
      Finite(12000000), "NON_COMPLIANT", ""),
    OldTaxCalculationResult(Finite(0), Finite(0), Finite(0), Finite(0), Finite(0), "UNKNOWN",
      "Data is insufficient."),
    OldTaxCalculationResult(Finite(1), Finite(30), Finite(1), Finite(1), Finite(2), "PENDING", "Wait.") }

OldAssessLoaded(loaded, remote) ==
  IF loaded.escaped THEN Raised(FALSE, FALSE)
  ELSE IF ~loaded.ok
  THEN Returned("fallback",
         OldTaxFallback("Data loading failed. Check file path, existence, and column names."),
         FALSE, FALSE)
  ELSE IF remote.client = "fail"
  THEN Returned("fallback",
         OldTaxFallback("AWS setup or connectivity failed. Check credentials and Bedrock access in region "
                          \o AWS_REGION \o "."),
         TRUE, FALSE)
  ELSE IF remote.call = "fail" \/ ~ValidOldTaxCalculationResult(remote.raw)
  THEN Returned("fallback",
         OldTaxFallback("API request failed. Check model permissions and AWS access for Llama 3 70B."),
         TRUE, TRUE)
  ELSE Returned("remote", remote.raw, TRUE, TRUE)

calculate_tax_and_assess_old(business_size, path, fs, remote) ==
  OldAssessLoaded(load_financial_data_old(path, fs), remote)

(***************************************************************************)
(* The interactive loops                                                   *)
(***************************************************************************)
AdvisorTools == {"advise", "nigerian_advisor"}
AnalystTools == {"analyst", "nigerian_busanalyst"}
TaxTools == {"nigerian_taxcalc", "taxcalc"}
Tools == AdvisorTools \cup AnalystTools \cup TaxTools \cup {"chatbot"}

\* input() at end of input raises EOFError; no typed line equals this value.
EOF == "<EOF>"

\* next_query: None is <<>>, a string s is <<s>>.
None == <<>>
Truthy(q) == q # None /\ q[1] # ""

\* No file was looked at in this step.
NoFile == [state |-> "none", cols |-> <<>>, rows |-> <<>>]

NoLoad ==
  [ok |-> FALSE, total_revenue |-> NoneFloat, profit_tax_paid |-> Finite(0),
   output_vat |-> Finite(0), input_vat |-> Finite(0), error |-> "none", read |-> FALSE,
   escaped |-> FALSE, file |-> NoFile]

\* What load_financial_data returned for the file fs found at the path.
LoadSummary(l, fs) ==
  [ok |-> l.ok, total_revenue |-> l.total_revenue, profit_tax_paid |-> l.profit_tax_paid,
   output_vat |-> l.output_vat, input_vat |-> l.input_vat, error |-> l.error, read |-> l.read,
   escaped |-> l.escaped, file |-> fs]

NoCall == [raised |-> FALSE, ret |-> "none", report |-> NoReport, client |-> FALSE, remote |-> FALSE]

ValidFor(t, raw) ==
  CASE t = "advise" -> ValidDetailedBusinessAdvice(raw)
    [] t \in {"nigerian_advisor", "chatbot"} -> ValidBusinessAdvice(raw)
    [] t = "analyst" -> ValidBusinessAnalysisReport(raw)
    [] t = "nigerian_busanalyst" -> ValidMonthlyAnalysisReport(raw)
    [] t = "nigerian_taxcalc" -> ValidTaxCalculationResult(raw)
    [] t = "taxcalc" -> ValidOldTaxCalculationResult(raw)

RawsOf(t) ==
  CASE t = "advise" -> DetailedRaws
    [] t \in {"nigerian_advisor", "chatbot"} -> BusinessAdviceRaws
    [] t = "analyst" -> AnalysisRaws
    [] t = "nigerian_busanalyst" -> MonthlyRaws
    [] t = "nigerian_taxcalc" -> TaxRaws
    [] t = "taxcalc" -> OldTaxRaws

\* What went wrong at the service in a call that got as far as the client.
FailureOf(t, res, remote) ==
  IF ~res.client THEN "none"
  ELSE IF remote.client = "fail" THEN "client"
  ELSE IF remote.call = "fail" THEN "call"
  ELSE IF ~ValidFor(t, remote.raw) THEN "validation"
  ELSE "none"

\* The record of one step: the prompt read and the line typed, whether the
\* completion function ran (fn), how it ended, and what was printed (out).
Event(prompt, input, fn, res, failure, load, out) ==
  [prompt |-> prompt, input |-> input, fn |-> fn, client |-> res.client,
   remote |-> res.remote, ret |-> res.ret, raised |-> res.raised, failure |-> failure,
   load |-> load, out |-> out]

Quiet(prompt, input, out) == Event(prompt, input, FALSE, NoCall, "none", NoLoad, out)

Cur ==
  [pc |-> pc, next_query |-> next_query, industry |-> industry, nums |-> nums,
   filepath |-> filepath, report |-> report, ev |-> ev]

Goto(n) ==
  /\ pc' = n.pc
  /\ next_query' = n.next_query
  /\ industry' = n.industry
  /\ nums' = n.nums
  /\ filepath' = n.filepath
  /\ report' = n.report
  /\ ev' = n.ev
  /\ UNCHANGED tool

\* A step after a completion call that goes on without printing anything.
AfterCall_without_display(s, t, prompt, input, res, remote, load, out, nextpc) ==
  [s EXCEPT !.pc = nextpc,
            !.report = IF res.raised THEN s.report ELSE res.report,
            !.ev = Event(prompt, input, TRUE, res, FailureOf(t, res, remote), load, {})]

\* The state after a completion function returned res and `out` was rendered.
AfterCall(s, t, prompt, input, res, remote, load, out, nextpc) ==
  [s EXCEPT !.pc = nextpc,
            !.report = IF res.raised THEN s.report ELSE res.report,
            !.ev = Event(prompt, input, TRUE, res, FailureOf(t, res, remote), load, out)]

(***************************************************************************)
(* advise.py, nigerian_advisor.py: the question loop                       *)
(***************************************************************************)
\* A greeting list without the two-word phrases.
GREETINGS_short == {"hi", "hello", "hey"}

GREETINGS == {"hi", "hello", "hey", "good morning", "good afternoon", "good evening"}

\* An exit list without the one-letter keyword.
AdvisorExitPrimary_no_q == {"quit", "exit"}

AdvisorExitPrimary == {"quit", "exit", "q"}

AdvisorExitContinuation == {"no", "n", "quit", "exit", "q"}

get_nigerian_advice(t, user_query, remote) ==
  IF t = "advise" THEN get_nigerian_advice_advise(user_query, remote)
  ELSE get_nigerian_advice_advisor(user_query, remote)

\* The display of advise.py (full report above relevance 0.5) and of
\* nigerian_advisor.py.
RenderAdvice(t, r) ==
  IF t = "advise"
  THEN {"title", "type"} \cup
       (IF r.relevance_score > 5
        THEN {"summary", "explanation", "considerations"} \cup
             (IF r.actionable_steps # <<>> THEN {"steps"} ELSE {})
        ELSE {"summary"})
  ELSE {"title", "type", "advice"}

\* PHASE 2: the advice came back (or an exception reached the loop's handler).
AdvisorAnswered(s, t, prompt, input, res, remote) ==
  IF res.raised
  THEN AfterCall(s, t, prompt, input, res, remote, NoLoad, {"runtime_error"}, "AwaitingInput")
  ELSE AfterCall(s, t, prompt, input, res, remote, NoLoad, RenderAdvice(t, res.report),
                 "AwaitingContinuation")

\* One pass of the loop body from the exit check to the continuation prompt.
AdvisorBody(s, t, user_query, prompt, input, remote) ==
  IF lower(user_query) \in AdvisorExitPrimary
  THEN [s EXCEPT !.pc = "Done", !.ev = Quiet(prompt, input, {"goodbye"})]
  ELSE IF user_query = ""
  THEN [s EXCEPT !.pc = "AwaitingInput", !.ev = Quiet(prompt, input, {})]
  ELSE IF lower(user_query) \in GREETINGS
  THEN [s EXCEPT !.pc = "AwaitingInput", !.ev = Quiet(prompt, input, {"canned"})]
  ELSE AdvisorAnswered(s, t, prompt, input, get_nigerian_advice(t, user_query, remote), remote)

AdvisorPrimaryInputs ==
  {"quit", " EXIT ", "Q", "no", "", "   ", "hello", " Good Morning ",
   "How do I register for VAT?", EOF}

AdvisorContinuationInputs ==
  {"", "  ", "no", "N", "q", " Quit", "exit", "Hey ", "What is CIT?", EOF}

\* The primary prompt (next_query is empty).
AdvisorPrimary ==
  /\ tool \in AdvisorTools /\ pc = "AwaitingInput" /\ ~Truthy(next_query)
  /\ \E user_input \in AdvisorPrimaryInputs, remote \in RemoteBehaviours(RawsOf(tool)) :
       IF user_input = EOF
       THEN Goto([Cur EXCEPT !.pc = "Done", !.ev = Quiet("primary", EOF, {"goodbye"})])
       ELSE Goto(AdvisorBody(Cur, tool, strip(user_input), "primary", user_input, remote))

\* An iteration that takes its question from next_query and leaves it there.
AdvisorBuffered_keeping_query ==
  /\ tool \in AdvisorTools /\ pc = "AwaitingInput" /\ Truthy(next_query)
  /\ \E remote \in RemoteBehaviours(RawsOf(tool)) :
       Goto(AdvisorBody(Cur, tool, next_query[1], "buffer", next_query[1], remote))

\* The iteration that takes its question from next_query.
AdvisorBuffered ==
  /\ tool \in AdvisorTools /\ pc = "AwaitingInput" /\ Truthy(next_query)
  /\ \E remote \in RemoteBehaviours(RawsOf(tool)) :
       Goto(AdvisorBody([Cur EXCEPT !.next_query = None], tool, next_query[1], "buffer",
                        next_query[1], remote))

\* PHASE 3: the continuation prompt, next_input being the stripped line.
AdvisorContinuationBody(s, input, next_input) ==
  IF next_input = ""
  THEN [s EXCEPT !.pc = "AwaitingInput", !.ev = Quiet("continuation", input, {})]
  ELSE IF lower(next_input) \in AdvisorExitContinuation
  THEN [s EXCEPT !.pc = "Done", !.ev = Quiet("continuation", input, {"goodbye"})]
  ELSE [s EXCEPT !.pc = "AwaitingInput", !.next_query = <<next_input>>,
                 !.ev = Quiet("continuation", input, {})]

AdvisorContinuation ==
  /\ tool \in AdvisorTools /\ pc = "AwaitingContinuation"
  /\ \E input \in AdvisorContinuationInputs :
       IF input = EOF
       THEN Goto([Cur EXCEPT !.pc = "Done", !.ev = Quiet("continuation", EOF, {"goodbye"})])
       ELSE Goto(AdvisorContinuationBody(Cur, input, strip(input)))

(***************************************************************************)
(* analyst.py, irrelevant/nigerian_busanalyst.py: the data-entry loop      *)
(***************************************************************************)
AnalystExitPrimary == {"quit", "exit", "q"}

\* An exit list without the one-letter keyword.
NumericExit_no_q == {"quit", "exit"}

NumericExit == {"quit", "exit", "q"}

AnalystExitContinuation == {"no", "n", "quit", "exit"}

\* a + b on floats
FloatAdd(a, b) ==
  IF a.kind = "nan" \/ b.kind = "nan" THEN NaN
  ELSE IF a.kind = "inf" /\ b.kind = "inf" THEN (IF a.v = b.v THEN a ELSE NaN)
  ELSE IF a.kind = "inf" THEN a
  ELSE IF b.kind = "inf" THEN b
  ELSE Finite(a.v + b.v)

get_business_analysis(t, user_data, remote) ==
  IF t = "analyst" THEN get_business_analysis_analyst(user_data, remote)
  ELSE get_business_analysis_busanalyst(user_data, remote)

\* user_data_payload; n holds the three numbers in the order they were asked.
Payload(t, ind, n) ==
  IF t = "analyst"
  THEN [industry |-> ind, revenue |-> n[1], total_costs |-> n[2], bank_balance |-> n[3],
        net_profit |-> FloatSub(n[1], n[2])]
  ELSE [industry |-> ind, revenue |-> n[1], fixed_costs |-> n[2], variable_costs |-> n[3],
        total_cost |-> FloatAdd(n[2], n[3]),
        net_profit |-> FloatSub(n[1], FloatAdd(n[2], n[3]))]

RenderAnalysis(t, r) ==
  IF t = "analyst"
  THEN {"profitability", "growth", "efficiency", "valuation", "tax", "loan", "advice"}
  ELSE {"performance", "projection", "improvement", "growth_advice"}

AnalystIndustryInputs == {"quit", " Q ", "no", "", "  ", "Retail", EOF}

\* The industry prompt without its emptiness check.
AnalystIndustryBody_no_empty_check(s, input, ind) ==
  IF lower(ind) \in AnalystExitPrimary
  THEN [s EXCEPT !.pc = "Done", !.industry = ind, !.ev = Quiet("primary", input, {"goodbye"})]
  ELSE [s EXCEPT !.pc = "Numeric1", !.industry = ind, !.ev = Quiet("primary", input, {})]

\* The industry prompt, ind being the stripped line.
AnalystIndustryBody(s, input, ind) ==
  IF lower(ind) \in AnalystExitPrimary
  THEN [s EXCEPT !.pc = "Done", !.industry = ind, !.ev = Quiet("primary", input, {"goodbye"})]
  ELSE IF ind = ""
  THEN [s EXCEPT !.pc = "AwaitingInput", !.industry = ind,
                 !.ev = Quiet("primary", input, {"industry_required"})]
  ELSE [s EXCEPT !.pc = "Numeric1", !.industry = ind, !.ev = Quiet("primary", input, {})]

AnalystIndustry ==
  /\ tool \in AnalystTools /\ pc = "AwaitingInput"
  /\ \E input \in AnalystIndustryInputs :
       IF input = EOF
       THEN \* EOFError is caught by `except Exception`; the continuation prompt follows
            Goto([Cur EXCEPT !.pc = "AwaitingContinuation",
                             !.ev = Quiet("primary", EOF, {"runtime_error"})])
       ELSE Goto(AnalystIndustryBody(Cur, input, strip(input)))

NumericPrompts == {"Numeric1", "Numeric2", "Numeric3"}

PromptIndex(p) == CASE p = "Numeric1" -> 1 [] p = "Numeric2" -> 2 [] p = "Numeric3" -> 3

NumericInputs ==
  {"quit", " Q", "exit", "no", "0", "1,000,000", "-5", "nan", "abc", "", EOF}

\* The report came back (or an exception reached the loop's handler); the
\* continuation prompt follows either way.
AnalystAnswered(s, t, input, res, remote) ==
  IF res.raised
  THEN AfterCall(s, t, "numeric", input, res, remote, NoLoad, {"summary", "runtime_error"},
                 "AwaitingContinuation")
  ELSE AfterCall(s, t, "numeric", input, res, remote, NoLoad,
                 {"summary"} \cup RenderAnalysis(t, res.report), "AwaitingContinuation")

\* What follows the third number: the summary, the zero-revenue check, the
\* analysis and its display.
AnalystAnalyse(s, t, input, remote) ==
  IF FloatIsZero(s.nums[1])
  THEN [s EXCEPT !.pc = "AwaitingInput", !.ev = Quiet("numeric", input, {"summary", "zero_revenue"})]
  ELSE AnalystAnswered(s, t, input,
                       get_business_analysis(t, Payload(t, s.industry, s.nums), remote), remote)

\* get_numeric_input returned f.val at the k-th numeric prompt.
AnalystAccept(s, t, input, k, value, remote) ==
  IF k < 3
  THEN [s EXCEPT !.pc = IF k = 1 THEN "Numeric2" ELSE "Numeric3", !.nums[k] = value,
                 !.ev = Quiet("numeric", input, {})]
  ELSE AnalystAnalyse([s EXCEPT !.nums[k] = value], t, input, remote)

AnalystParsed(s, t, input, f, remote) ==
  IF ~f.ok
  THEN [s EXCEPT !.ev = Quiet("numeric", input, {"invalid_input"})]
  ELSE IF FloatNegative(f.val)
  THEN [s EXCEPT !.ev = Quiet("numeric", input, {"negative"})]
  ELSE AnalystAccept(s, t, input, PromptIndex(s.pc), f.val, remote)

\* One read of get_numeric_input (user_input being the stripped, lowered
\* line) and, after an accepted value, the code up to the next read.
AnalystNumericBody(s, t, input, user_input, remote) ==
  IF user_input \in NumericExit
  THEN \* SystemExit, caught by the loop, which breaks
       [s EXCEPT !.pc = "Done", !.ev = Quiet("numeric", input, {})]
  ELSE AnalystParsed(s, t, input, ParseFloat(RemoveCommas(user_input)), remote)

AnalystNumeric ==
  /\ tool \in AnalystTools /\ pc \in NumericPrompts
  /\ \E input \in NumericInputs, remote \in RemoteBehaviours(RawsOf(tool)) :
       IF input = EOF
       THEN Goto([Cur EXCEPT !.pc = "AwaitingContinuation",
                             !.ev = Quiet("numeric", EOF, {"runtime_error"})])
       ELSE Goto(AnalystNumericBody(Cur, tool, input, lower(strip(input)), remote))

AnalystContinuationInputs == {"", "no", " N ", "q", "Quit", "exit", "yes", EOF}

AnalystContinuationBody(s, input) ==
  IF lower(strip(input)) \in AnalystExitContinuation
  THEN [s EXCEPT !.pc = "Done", !.ev = Quiet("continuation", input, {"goodbye"})]
  ELSE [s EXCEPT !.pc = "AwaitingInput", !.ev = Quiet("continuation", input, {})]

AnalystContinuation ==
  /\ tool \in AnalystTools /\ pc = "AwaitingContinuation"
  /\ \E input \in AnalystContinuationInputs :
       IF input = EOF
       THEN \* outside the try block: EOFError ends the process with a traceback
            Goto([Cur EXCEPT !.pc = "Crashed", !.ev = Quiet("continuation", EOF, {"traceback"})])
       ELSE Goto(AnalystContinuationBody(Cur, input))

(***************************************************************************)
(* nigerian_taxcalc.py, irrelevant/taxcalc.py: the file loop               *)
(***************************************************************************)
TaxExitPrimary == {"exit", "quit", "q"}

TaxExitContinuation == {"no", "n", "quit", "exit"}

BusinessSizes == {"MEDIUM", "LARGE"}

calculate_tax_and_assess(t, business_size, path, fs, remote) ==
  IF t = "nigerian_taxcalc" THEN calculate_tax_and_assess_taxcalc(business_size, path, fs, remote)
  ELSE calculate_tax_and_assess_old(business_size, path, fs, remote)

LoadOf(t, path, fs) ==
  IF t = "nigerian_taxcalc" THEN load_financial_data(path, fs) ELSE load_financial_data_old(path, fs)

\* A display that tests the status of both calculators for the member UNKNOWN.
RenderTax_exact_status(t, r) ==
  IF r.compliance_status = "UNKNOWN"
  THEN {"SYSTEM ERROR"}
  ELSE IF t = "nigerian_taxcalc" THEN {"profit_tax", "vat", "compliance", "growth"}
  ELSE {"profit_tax", "compliance"}

\* The display: the SYSTEM ERROR branch or the full assessment.
RenderTax(t, r) ==
  IF t = "nigerian_taxcalc"
  THEN IF contains(lower(r.compliance_recommendation), "failed")
          \/ contains(lower(r.compliance_status), "check data")
       THEN {"SYSTEM ERROR", "advice"}
       ELSE {"profit_tax", "vat", "compliance", "growth"}
  ELSE IF r.compliance_status = "UNKNOWN"
       THEN {"SYSTEM ERROR"}
       ELSE {"profit_tax", "compliance"}

TaxPathInputs ==
  {"exit", " Q ", "no", "", "data.csv", " Books.XLSX", "ledger.xls", "notes.txt",
   "data.csv.bak", EOF}

TaxFilePathBody(s, input, path) ==
  IF lower(path) \in TaxExitPrimary
  THEN [s EXCEPT !.pc = "Done", !.filepath = path, !.ev = Quiet("primary", input, {"goodbye"})]
  ELSE [s EXCEPT !.pc = "BusinessSize", !.filepath = path, !.ev = Quiet("primary", input, {})]

\* The loops of the tax calculators have no try block: EOFError ends the
\* process with a traceback.
TaxFilePath ==
  /\ tool \in TaxTools /\ pc = "AwaitingInput"
  /\ \E input \in TaxPathInputs :
       IF input = EOF
       THEN Goto([Cur EXCEPT !.pc = "Crashed", !.ev = Quiet("primary", EOF, {"traceback"})])
       ELSE Goto(TaxFilePathBody(Cur, input, strip(input)))

TaxSizeInputs == {"MEDIUM", " large ", "small", "quit", "Q", "no", "exit", "", EOF}

\* calculate_tax_and_assess came back; load is what load_financial_data
\* resolved inside it.
TaxAssessed(s, t, input, res, load, remote) ==
  IF res.raised
  THEN AfterCall(s, t, "size", input, res, remote, load, {"traceback"}, "Crashed")
  ELSE AfterCall(s, t, "size", input, res, remote, load, RenderTax(t, res.report),
                 "AwaitingContinuation")

TaxBusinessSizeBody(s, t, input, business_size, fs, remote) ==
  IF business_size \notin BusinessSizes
  THEN [s EXCEPT !.pc = "AwaitingInput", !.ev = Quiet("size", input, {"invalid_size"})]
  ELSE TaxAssessed(s, t, input, calculate_tax_and_assess(t, business_size, s.filepath, fs, remote),
                   LoadSummary(LoadOf(t, s.filepath, fs), fs), remote)

TaxBusinessSize ==
  /\ tool \in TaxTools /\ pc = "BusinessSize"
  /\ \E input \in TaxSizeInputs, fs \in FileStates, remote \in RemoteBehaviours(RawsOf(tool)) :
       IF input = EOF
       THEN Goto([Cur EXCEPT !.pc = "Crashed", !.ev = Quiet("size", EOF, {"traceback"})])
       ELSE Goto(TaxBusinessSizeBody(Cur, tool, input, upper(strip(input)), fs, remote))

TaxContinuationInputs == {"", "no", " N ", "q", "Quit", "exit", "yes", EOF}

TaxContinuationBody(s, input) ==
  IF lower(strip(input)) \in TaxExitContinuation
  THEN [s EXCEPT !.pc = "Done", !.ev = Quiet("continuation", input, {"goodbye"})]
  ELSE [s EXCEPT !.pc = "AwaitingInput", !.ev = Quiet("continuation", input, {})]

TaxContinuation ==
  /\ tool \in TaxTools /\ pc = "AwaitingContinuation"
  /\ \E input \in TaxContinuationInputs :
       IF input = EOF
       THEN Goto([Cur EXCEPT !.pc = "Crashed", !.ev = Quiet("continuation", EOF, {"traceback"})])
       ELSE Goto(TaxContinuationBody(Cur, input))

(***************************************************************************)
(* irrelevant/chatbot.py: one question, no loop                            *)
(***************************************************************************)
ChatbotInputs == {"", "  ", "hello", "quit", "How do I register for VAT?", EOF}

ChatbotAnswered(s, user_query, res, remote) ==
  IF res.raised
  THEN AfterCall(s, "chatbot", "primary", user_query, res, remote, NoLoad, {"traceback"}, "Crashed")
  ELSE AfterCall(s, "chatbot", "primary", user_query, res, remote, NoLoad, {"title", "advice"}, "Done")

ChatbotBody(s, user_query, remote) ==
  IF strip(user_query) = ""
  THEN [s EXCEPT !.pc = "Done", !.ev = Quiet("primary", user_query, {"empty_query"})]
  ELSE ChatbotAnswered(s, user_query, get_nigerian_advice_chatbot(user_query, remote), remote)

Chatbot ==
  /\ tool = "chatbot" /\ pc = "AwaitingInput"
  /\ \E user_query \in ChatbotInputs, remote \in RemoteBehaviours(RawsOf(tool)) :
       IF user_query = EOF
       THEN Goto([Cur EXCEPT !.pc = "Crashed", !.ev = Quiet("primary", EOF, {"traceback"})])
       ELSE Goto(ChatbotBody(Cur, user_query, remote))

\* revenue, costs and the third number before any was entered
Unset == <<NoneFloat, NoneFloat, NoneFloat>>

Init ==
  /\ tool \in Tools
  /\ pc = "AwaitingInput"
  /\ next_query = None
  /\ industry = ""
  /\ nums = Unset
  /\ filepath = ""
  /\ report = NoReport
  /\ ev = Quiet("none", "", {})

Next ==
  \/ AdvisorPrimary
  \/ AdvisorBuffered
  \/ AdvisorContinuation
  \/ AnalystIndustry
  \/ AnalystNumeric
  \/ AnalystContinuation
  \/ TaxFilePath
  \/ TaxBusinessSize
  \/ TaxContinuation
  \/ Chatbot

Spec == Init /\ [][Next]_vars

(***************************************************************************)
(* Properties                                                              *)
(***************************************************************************)
LoopTools == AdvisorTools \cup AnalystTools \cup TaxTools

\* The line typed in the last step, trimmed and lowered ("" for end of input).
TypedWord == IF ev.input = EOF THEN "" ELSE lower(strip(ev.input))

TypedLine == ev.input # EOF /\ ev.prompt # "none"

ServiceFailed == ev.fn /\ ev.failure \in {"client", "call", "validation"}

\* The response model of each tool's completion function.
SchemaName(t) ==
  CASE t = "advise" -> "DetailedBusinessAdvice"
    [] t \in {"nigerian_advisor", "chatbot"} -> "BusinessAdvice"
    [] t = "analyst" -> "BusinessAnalysisReport"
    [] t = "nigerian_busanalyst" -> "MonthlyAnalysisReport"
    [] t = "nigerian_taxcalc" -> "TaxCalculationResult"
    [] t = "taxcalc" -> "OldTaxCalculationResult"

\* C1: in every completion function, a failure to construct the remote client
\* or a failure of the remote call (connectivity, authentication, quota, schema
\* validation) ends in the function returning its fallback report; no exception
\* reaches the calling loop, which goes on to its next prompt.
C1_FailureReturnsFallback ==
  ServiceFailed =>
    /\ ~ev.raised
    /\ ev.ret = "fallback"
    /\ report.schema = SchemaName(tool)
    /\ "runtime_error" \notin ev.out /\ "traceback" \notin ev.out
    /\ pc = IF tool = "chatbot" THEN "Done" ELSE "AwaitingContinuation"

C1_Witness ==
  /\ tool = "nigerian_taxcalc" /\ ev.fn /\ ev.failure = "client" /\ ev.ret = "fallback"

\* The field of each schema that explains a failure.
Explanation(r) ==
  CASE r.schema = "DetailedBusinessAdvice" -> r.key_points_summary
    [] r.schema = "BusinessAdvice" -> r.advice
    [] r.schema = "BusinessAnalysisReport" -> r.profitability_analysis
    [] r.schema = "MonthlyAnalysisReport" -> r.performance_summary
    [] r.schema \in {"TaxCalculationResult", "OldTaxCalculationResult"} -> r.compliance_recommendation

\* C2: whenever the remote call fails, the report returned has its status field
\* equal to the schema's error member (advice_type IRRELEVANT for the advice
\* schemas, compliance_status "UNKNOWN (Check Data)" or "UNKNOWN" for the tax
\* schemas) and its explanatory field holds a non-empty reason.
C2_FailedCallStatus ==
  (ev.fn /\ ev.failure \in {"call", "validation"}) =>
    /\ Explanation(report) # ""
    /\ tool \in AdvisorTools \cup {"chatbot"} => report.advice_type = "IRRELEVANT"
    /\ tool = "nigerian_taxcalc" => report.compliance_status = "UNKNOWN (Check Data)"
    /\ tool = "taxcalc" => report.compliance_status = "UNKNOWN"

C2_Witness ==
  /\ tool = "advise" /\ ev.fn /\ ev.failure = "validation" /\ report.advice_type = "IRRELEVANT"

\* The list-typed field of a report (an empty list for the schemas without one).
ListField(r) ==
  CASE r.schema = "DetailedBusinessAdvice" -> r.actionable_steps
    [] r.schema = "BusinessAnalysisReport" -> r.actionable_advice
    [] r.schema = "MonthlyAnalysisReport" -> r.key_areas_for_improvement
    [] OTHER -> <<>>

\* C3 as stated: in every fallback report every list-typed field
\* (actionable_steps, actionable_advice, key_areas_for_improvement) is empty.
C3_Original == ev.ret = "fallback" => ListField(report) = <<>>

\* C3 as amended: the fallback of DetailedBusinessAdvice has an empty
\* actionable_steps; the fallbacks of the two analysis schemas carry exactly one
\* entry, the failure reason, in actionable_advice / key_areas_for_improvement.
C3_FallbackLists ==
  ev.ret = "fallback" =>
    /\ tool = "advise" => report.actionable_steps = <<>>
    /\ tool = "analyst" =>
         Len(report.actionable_advice) = 1 /\ report.actionable_advice[1] # ""
    /\ tool = "nigerian_busanalyst" =>
         Len(report.key_areas_for_improvement) = 1 /\ report.key_areas_for_improvement[1] # ""

C3_Witness ==
  /\ tool = "analyst" /\ ev.ret = "fallback" /\ Len(report.actionable_advice) = 1

\* The numeric fields of a report other than profit_tax_paid_by_user, as floats.
OtherNumericFields(r) ==
  CASE r.schema \in {"DetailedBusinessAdvice", "BusinessAdvice"} -> {Finite(r.relevance_score)}
    [] r.schema = "MonthlyAnalysisReport" -> {Finite(r.profit_margin_percentage)}
    [] r.schema = "TaxCalculationResult" ->
         {r.taxable_profit, r.cit_rate_applied, r.cit_liability, r.education_tax_liability,
          r.total_profit_tax_due, r.profit_tax_payment_status_amount, r.vat_output_collected,
          r.vat_input_paid, r.vat_remittable_due}
    [] r.schema = "OldTaxCalculationResult" ->
         {r.taxable_profit, r.cit_rate_applied, r.cit_liability, r.education_tax_liability,
          r.total_tax_due}
    [] OTHER -> {}

\* C4 as stated: in every fallback report every numeric field is 0.0, the
\* profit_tax_paid_by_user of get_fallback_response included.
C4_Original ==
  ev.ret = "fallback" =>
    /\ OtherNumericFields(report) \subseteq {Finite(0)}
    /\ tool = "nigerian_taxcalc" => report.profit_tax_paid_by_user = Finite(0)

\* C4 as amended: in every fallback report every numeric field is 0.0 except
\* profit_tax_paid_by_user of nigerian_taxcalc.py, which is 0.0 when loading the
\* data or constructing the client failed and is the profit tax paid that the
\* extractor resolved from the file when the remote call failed.
C4_FallbackNumbers ==
  ev.ret = "fallback" =>
    /\ OtherNumericFields(report) \subseteq {Finite(0)}
    /\ tool = "nigerian_taxcalc" =>
         report.profit_tax_paid_by_user =
           IF ev.remote THEN ev.load.profit_tax_paid ELSE Finite(0)

C4_Witness ==
  /\ tool = "nigerian_taxcalc" /\ ev.ret = "fallback" /\ ev.remote
  /\ report.profit_tax_paid_by_user = Finite(4500000)

\* C5: every report returned by get_nigerian_advice, from an accepted remote
\* completion or from the fallback path, has relevance_score within [0, 1]
\* (0..10 in tenths) and advice_type among BUSINESS_STRATEGY, TAX_COMPLIANCE,
\* IRRELEVANT.
C5_AdviceInRange ==
  (tool \in AdvisorTools \cup {"chatbot"} /\ ev.ret # "none") =>
    /\ report.relevance_score >= 0 /\ report.relevance_score <= 10
    /\ report.advice_type \in {"BUSINESS_STRATEGY", "TAX_COMPLIANCE", "IRRELEVANT"}

GreetingPhrases ==
  {"hi", "hello", "hey", "good morning", "good afternoon", "good evening"}

\* C6: in the advisor loops a line that, trimmed and lowered, is a greeting
\* phrase never causes a call of the completion function, whether typed at the
\* primary prompt or at the continuation prompt (from where it comes back
\* through next_query): the canned reply is printed and the loop awaits input.
C6_GreetingShortCircuit ==
  (tool \in AdvisorTools /\ TypedLine /\ TypedWord \in GreetingPhrases) =>
    /\ ~ev.fn /\ ~ev.client /\ ~ev.remote
    /\ pc = "AwaitingInput"
    /\ ev.prompt \in {"primary", "buffer"} => "canned" \in ev.out /\ next_query = None
    /\ ev.prompt = "continuation" => next_query = <<strip(ev.input)>>

C6_Witness ==
  /\ tool \in AdvisorTools /\ ev.prompt = "buffer" /\ ev.input = "Hey" /\ "canned" \in ev.out

EmptyAtPrimary == ev.prompt = "primary" /\ TypedLine /\ TypedWord = ""

\* C7 as stated: in every interactive loop an empty or blank line at the primary
\* prompt returns the loop to awaiting input without invoking the completion
\* client.
C7_Original ==
  (tool \in LoopTools /\ EmptyAtPrimary) => (pc = "AwaitingInput" /\ ~ev.fn)

\* C7 as amended: in the advisor and analyst loops an empty or blank line at the
\* primary prompt returns the loop to awaiting input without invoking the
\* completion client; in the tax calculators it is taken as the file path and
\* the business-size prompt follows, and the assessment of that empty path
\* constructs no client and sends no request.
C7_EmptyInput ==
  /\ (tool \in AdvisorTools \cup AnalystTools /\ EmptyAtPrimary) =>
       (pc = "AwaitingInput" /\ ~ev.fn)
  /\ (tool \in TaxTools /\ EmptyAtPrimary) =>
       (pc = "BusinessSize" /\ ~ev.fn /\ filepath = "")
  /\ (tool \in TaxTools /\ ev.prompt = "size" /\ filepath = "") =>
       (~ev.client /\ ~ev.remote /\ ev.ret \in {"none", "fallback"})

C7_Witness ==
  /\ tool \in TaxTools /\ ev.prompt = "size" /\ filepath = "" /\ ev.fn /\ ev.ret = "fallback"

ExitKeywords == {"quit", "exit", "q", "no"}

\* C8 as stated: in every interactive loop quit, exit, q or no (in any case) at
\* the primary prompt moves the loop to Done without invoking the completion
\* client.
C8_Original ==
  (tool \in LoopTools /\ ev.prompt = "primary" /\ TypedLine /\ TypedWord \in ExitKeywords) =>
    (pc = "Done" /\ ~ev.fn)

\* C8 as amended: in every interactive loop quit, exit or q (in any case) at the
\* primary prompt moves the loop to Done without invoking the completion
\* client; no is not an exit keyword there and the loop does not end.
C8_ExitAtPrimary ==
  /\ (tool \in LoopTools /\ ev.prompt = "primary" /\ TypedLine
        /\ TypedWord \in {"quit", "exit", "q"}) =>
       (pc = "Done" /\ ~ev.fn /\ "goodbye" \in ev.out)
  /\ (tool \in LoopTools /\ ev.prompt = "primary" /\ TypedLine /\ TypedWord = "no") =>
       pc # "Done"

C8_Witness ==
  /\ tool = "advise" /\ ev.prompt = "primary" /\ ev.input = " EXIT " /\ pc = "Done"

\* C9: in every interactive loop quit, exit, q or no (in any case) at the
\* continuation prompt moves the loop to Done.
C9_ExitAtContinuation ==
  (tool \in LoopTools /\ ev.prompt = "continuation" /\ TypedLine /\ TypedWord \in ExitKeywords) =>
    pc = "Done"

\* C10 as stated: an exit keyword (quit, exit, q or no) typed at a numeric
\* prompt of the analyst or at the business-size prompt of the tax calculator
\* terminates the tool.
C10_Original ==
  (ev.prompt \in {"numeric", "size"} /\ TypedLine /\ TypedWord \in ExitKeywords) => pc = "Done"

\* C10 as amended: quit, exit or q (in any case) typed at a numeric prompt of
\* the analyst terminates the tool, while no is rejected there as invalid input
\* and the same prompt is shown again; at the business-size prompt of the tax
\* calculator every exit keyword is rejected as an invalid business size and
\* the loop returns to the file-path prompt.
C10_ExitAtSecondary ==
  /\ (ev.prompt = "numeric" /\ TypedLine /\ TypedWord \in {"quit", "exit", "q"}) =>
       (pc = "Done" /\ ~ev.fn)
  /\ (ev.prompt = "numeric" /\ TypedLine /\ TypedWord = "no") =>
       (pc \in NumericPrompts /\ "invalid_input" \in ev.out)
  /\ (ev.prompt = "size" /\ TypedLine /\ TypedWord \in ExitKeywords) =>
       (pc = "AwaitingInput" /\ "invalid_size" \in ev.out /\ ~ev.fn)

C10_Witness ==
  /\ tool = "nigerian_taxcalc" /\ ev.prompt = "size" /\ ev.input = "quit" /\ pc = "AwaitingInput"

\* The last step read end of input at a prompt.
EndOfInput == ev.input = EOF /\ ev.prompt # "none"

\* C11: in every interactive tool, end of input on stdin at any prompt ends the
\* program cleanly: a goodbye message is printed, the loop reaches Done and no
\* exception escapes the loop.
C11_EofCleanExit ==
  EndOfInput => (pc = "Done" /\ "goodbye" \in ev.out /\ "traceback" \notin ev.out)

\* The step raised an exception inside the loop body after the primary prompt:
\* at a prompt that gathers the request's data or in the call and its display.
FaultInBody ==
  /\ tool \in LoopTools
  /\ ev.prompt \in {"numeric", "size", "buffer"} \/ ev.fn
  /\ ev.out \cap {"runtime_error", "traceback"} # {}

\* C12: in every interactive loop an exception raised while the request is
\* composed, the completion awaited or the report rendered is caught at the
\* loop boundary and reported, and the loop is next at its primary prompt; the
\* process does not end because of it.
C12_CaughtAtBoundary ==
  FaultInBody => (pc = "AwaitingInput" /\ "runtime_error" \in ev.out)

\* The last step called calculate_tax_and_assess.
Assessed == tool \in TaxTools /\ ev.fn

\* C13: in the tax calculators, whenever load_financial_data fails (unsupported
\* extension, file not found, unreadable file, label or amount column not
\* found, revenue not found, amount not a number), calculate_tax_and_assess
\* constructs no remote client and sends no request; it returns its fallback,
\* the error is displayed and the loop goes on to its continuation prompt.
C13_LoadFailureNoRemote ==
  (Assessed /\ ~ev.load.ok) =>
    /\ ~ev.client /\ ~ev.remote /\ ~ev.raised
    /\ ev.ret = "fallback"
    /\ "SYSTEM ERROR" \in ev.out
    /\ pc = "AwaitingContinuation"

C13_Witness ==
  /\ tool = "taxcalc" /\ ev.fn /\ ev.load.error = "KeyError" /\ ~ev.load.ok
  /\ ev.ret = "fallback" /\ pc = "AwaitingContinuation"

\* The table that the last assessment found at its path.
LoadedTable == Assessed /\ ev.load.file.state = "table"

RevenueKeywords == {"total revenue", "revenue", "sales"}

\* The cells of the label column of table f that hold a revenue keyword.
RevenueCells(f) ==
  {i \in 1..Len(f.rows) :
     \E k \in RevenueKeywords :
       contains(lower(f.rows[i][FirstColumn(f.cols, metric_col_names)]), k)}

\* C14: a table in which no cell of the label column holds a revenue keyword
\* (total revenue, revenue, sales, in any letter case) makes
\* load_financial_data return a failure, with no revenue in it; it never
\* returns a success with revenue 0.
C14_RevenueRequired ==
  (LoadedTable /\ FirstColumn(ev.load.file.cols, metric_col_names) # 0
     /\ RevenueCells(ev.load.file) = {}) =>
    (~ev.load.ok /\ ev.load.total_revenue = NoneFloat)

C14_Witness ==
  /\ tool = "nigerian_taxcalc" /\ ev.fn /\ ev.load.file = NoRevenueTable /\ ev.load.read
  /\ ev.load.error = "ValueError" /\ ~ev.load.ok

\* C15: in both tax calculators, whenever calculate_tax_and_assess gets as far
\* as the completion client, the revenue resolved from the file is present and
\* not zero; a file whose revenue row has the amount 0 never leads to a remote
\* call.
C15_RevenueBeforeClient ==
  (Assessed /\ (ev.client \/ ev.remote)) =>
    /\ ev.load.ok
    /\ ev.load.total_revenue.kind # "none"
    /\ ~FloatIsZero(ev.load.total_revenue)

\* The path of the last assessment ends, in any letter case, in .csv, .xlsx or
\* .xls.
TabularExtension ==
  \E e \in {".csv", ".xlsx", ".xls"} :
    /\ Len(filepath) >= Len(e)
    /\ lower(SubSeq(filepath, Len(filepath) - Len(e) + 1, Len(filepath))) = e

\* C16: for a path whose extension, compared in any letter case, is none of
\* .csv, .xlsx, .xls, load_financial_data returns a failure without reading
\* any file, and calculate_tax_and_assess constructs no client and sends no
\* request.
C16_UnsupportedExtension ==
  (Assessed /\ ~TabularExtension) =>
    /\ ~ev.load.ok /\ ~ev.load.read
    /\ ev.load.error = "ValueError" /\ ev.load.total_revenue = NoneFloat
    /\ ~ev.client /\ ~ev.remote

C16_Witness ==
  /\ Assessed /\ filepath = "data.csv.bak" /\ ev.load.file.state = "table"
  /\ ~ev.load.read /\ ev.load.error = "ValueError"

LabelSynonyms == {"metric", "item", "description", "particulars", "details"}
AmountSynonyms == {"amount", "value", "ngn", "total", "cost"}

\* The positions, in declared column order, of the headers of table f in which
\* a synonym of the set occurs, letter case ignored.
MatchingColumns(f, synonyms) ==
  {i \in 1..Len(f.cols) : \E name \in synonyms : contains(lower(f.cols[i]), name)}

\* What the extractor of tool t resolves from table f with label column m and
\* amount column a.
ResolvedWith(t, f, m, a) ==
  IF t = "nigerian_taxcalc"
  THEN LoadSummary(ResolveColumns(f, m, a), f)
  ELSE LoadSummary(OldResolveColumns(f, m, a), f)

\* C17: column resolution takes, for the label synonyms and for the amount
\* synonyms, the first column in declared order whose header matches the set in
\* any letter case; when several columns match a set, the values are resolved
\* from the earliest one.
C17_FirstColumnWins ==
  (LoadedTable /\ ev.load.read
     /\ MatchingColumns(ev.load.file, LabelSynonyms) # {}
     /\ MatchingColumns(ev.load.file, AmountSynonyms) # {}) =>
    ev.load = ResolvedWith(tool, ev.load.file,
                           MinOf(MatchingColumns(ev.load.file, LabelSynonyms)),
                           MinOf(MatchingColumns(ev.load.file, AmountSynonyms)))

C17_Witness ==
  /\ tool = "nigerian_taxcalc" /\ ev.fn /\ ev.load.file = TwoLabelsTable
  /\ Cardinality(MatchingColumns(ev.load.file, LabelSynonyms)) = 2
  /\ Cardinality(MatchingColumns(ev.load.file, AmountSynonyms)) = 2
  /\ ev.load.ok /\ ev.load.total_revenue = Finite(145000000)

\* C18: if no column header matches the label synonyms, or none matches the
\* amount synonyms, load_financial_data returns a failure and never a success
\* with a resolved revenue, in nigerian_taxcalc.py and in irrelevant/taxcalc.py.
C18_ColumnsRequired ==
  (LoadedTable
     /\ (MatchingColumns(ev.load.file, LabelSynonyms) = {}
           \/ MatchingColumns(ev.load.file, AmountSynonyms) = {})) =>
    (~ev.load.ok /\ ev.load.total_revenue = NoneFloat /\ ~ev.client /\ ~ev.raised)

C18_Witness ==
  /\ tool = "taxcalc" /\ ev.fn /\ ev.load.file = AmountOnlyTable /\ ev.load.read
  /\ MatchingColumns(ev.load.file, LabelSynonyms) = {}
  /\ MatchingColumns(ev.load.file, AmountSynonyms) # {}
  /\ ~ev.load.ok /\ ev.load.error = "Exception"

\* The keyword alternatives of each quantity, highest priority first.
RevenueAlternatives(t) ==
  IF t = "nigerian_taxcalc" THEN <<"total revenue", "revenue", "sales">> ELSE <<"revenue", "sales">>

\* The keywords of the list that occur in some cell of label column m of f.
KeywordsFound(f, m, keywords) ==
  {k \in 1..Len(keywords) : MatchingRows(f, m, keywords[k]) # {}}

\* The amount, in column a, of the first row whose label holds keyword kw.
FirstRowAmount(f, m, a, kw) == ParseFloat(f.rows[MinOf(MatchingRows(f, m, kw))][a]).val

\* The amount of the first row matching the highest-priority keyword that
\* matches any row; 0.0 when no keyword matches.
PriorityAmount(f, m, a, keywords) ==
  IF KeywordsFound(f, m, keywords) = {} THEN Finite(0)
  ELSE FirstRowAmount(f, m, a, keywords[MinOf(KeywordsFound(f, m, keywords))])

PriorityOf(f, keywords) ==
  PriorityAmount(f, FirstColumn(f.cols, metric_col_names), FirstColumn(f.cols, amount_col_names),
                 keywords)

\* C19: each quantity is resolved by trying its keyword alternatives in
\* priority order and taking the amount of the first row, in row order, that
\* matches the highest-priority keyword matching any row; a quantity other
\* than revenue whose keywords match no row is 0.0.  For revenue this holds in
\* nigerian_taxcalc.py and in irrelevant/taxcalc.py.
C19_PriorityResolution ==
  (LoadedTable /\ ev.load.ok) =>
    /\ ev.load.total_revenue = PriorityOf(ev.load.file, RevenueAlternatives(tool))
    /\ tool = "nigerian_taxcalc" =>
         /\ ev.load.profit_tax_paid =
              PriorityOf(ev.load.file, <<"profit tax paid", "cit paid", "tax paid">>)
         /\ ev.load.output_vat =
              PriorityOf(ev.load.file, <<"output vat", "vat collected", "vat on sales">>)
         /\ ev.load.input_vat =
              PriorityOf(ev.load.file, <<"input vat", "vat paid on inputs", "vat on purchases">>)

\* C20: load_financial_data lets no exception escape: for every path and every
\* file (missing, unreadable, an amount that is not a number, missing columns)
\* it returns either a success tuple or a failure tuple whose data frame and
\* revenue are None, and the calculator's loop goes on.
C20_LoadNeverRaises ==
  Assessed =>
    /\ ~ev.load.escaped /\ ~ev.raised /\ pc = "AwaitingContinuation"
    /\ \/ ev.load.ok /\ ev.load.error = "none" /\ ev.load.total_revenue.kind # "none"
       \/ /\ ~ev.load.ok /\ ev.load.total_revenue = NoneFloat
          /\ ev.load.error \in {"FileNotFoundError", "KeyError", "ValueError", "Exception"}

C20_Witness ==
  /\ tool = "nigerian_taxcalc" /\ ev.fn /\ ev.load.file = UnreadableFile /\ ev.load.read
  /\ ev.load.error = "Exception" /\ ~ev.load.ok /\ ev.load.total_revenue = NoneFloat

(***************************************************************************)
(* The presentation loops: one request at a time                           *)
(***************************************************************************)
\* Every section a loop can print of a report.
ReportSections(t) ==
  CASE t \in AdvisorTools ->
         {"title", "type", "summary", "explanation", "considerations", "steps", "advice"}
    [] t \in AnalystTools ->
         {"profitability", "growth", "efficiency", "valuation", "tax", "loan", "advice",
          "performance", "projection", "improvement", "growth_advice"}
    [] t \in TaxTools ->
         {"SYSTEM ERROR", "advice", "profit_tax", "vat", "compliance", "growth"}

\* The sections the loop of tool t prints of report r.
Displayed(t, r) ==
  CASE t \in AdvisorTools -> RenderAdvice(t, r)
    [] t \in AnalystTools -> RenderAnalysis(t, r)
    [] t \in TaxTools -> RenderTax(t, r)

\* C21: in every interactive loop a step makes at most one completion call;
\* the report the call returned is displayed in that same step, before the
\* continuation prompt is read, and a step without a returned report prints
\* no section of any report, so each report is rendered exactly once.
C21_OneRequestAtATime ==
  tool \in LoopTools =>
    /\ ev.ret # "none" =>
         /\ ev.fn /\ report # NoReport
         /\ ev.out \cap ReportSections(tool) = Displayed(tool, report)
         /\ pc = "AwaitingContinuation"
    /\ ev.ret = "none" =>
         /\ ev.out \cap ReportSections(tool) = {}
         /\ ev.raised \/ (~ev.client /\ ~ev.remote)

C21_Witness ==
  /\ tool \in LoopTools /\ ev.ret = "remote" /\ pc = "AwaitingContinuation"
  /\ Displayed(tool, report) # {} /\ Displayed(tool, report) \subseteq ev.out

(***************************************************************************)
(* nigerian_taxcalc.py: the figures of a report the service returned       *)
(***************************************************************************)
\* calculate_tax_and_assess of nigerian_taxcalc.py returned the object the
\* service sent.
RemoteAssessment == tool = "nigerian_taxcalc" /\ ev.fn /\ ev.ret = "remote"

\* C22: every report of nigerian_taxcalc.py that is not a fallback has
\* total_profit_tax_due = cit_liability + education_tax_liability, and for the
\* table of hi.py with business size LARGE it has taxable profit 50,000,000,
\* rate 30, CIT 15,000,000, education tax 1,500,000 and 16,500,000 due.
C22_ProfitTaxArithmetic ==
  RemoteAssessment =>
    /\ report.total_profit_tax_due
         = FloatAdd(report.cit_liability, report.education_tax_liability)
    /\ (ev.load.file = SampleTable /\ upper(strip(ev.input)) = "LARGE") =>
         /\ report.taxable_profit = Finite(50000000)
         /\ report.cit_rate_applied = Finite(30)
         /\ report.cit_liability = Finite(15000000)
         /\ report.education_tax_liability = Finite(1500000)
         /\ report.total_profit_tax_due = Finite(16500000)

\* C23: every report of nigerian_taxcalc.py that is not a fallback has
\* vat_remittable_due = vat_output_collected - vat_input_paid, the two VAT
\* amounts being the ones load_financial_data resolved from the file.
C23_VatArithmetic ==
  RemoteAssessment =>
    /\ report.vat_remittable_due
         = FloatSub(report.vat_output_collected, report.vat_input_paid)
    /\ report.vat_output_collected = ev.load.output_vat
    /\ report.vat_input_paid = ev.load.input_vat

(***************************************************************************)
(* hi.py: the sample table                                                 *)
(***************************************************************************)
\* load_financial_data of nigerian_taxcalc.py was given the table of hi.py
\* under a path with a tabular extension.
SampleLoaded ==
  /\ tool = "nigerian_taxcalc" /\ Assessed
  /\ ev.load.file = SampleTable /\ TabularExtension

\* C24: load_financial_data of nigerian_taxcalc.py accepts the table of hi.py:
\* it takes 'Metric' (the first column) as label column and 'Amount_NGN' (the
\* second) as amount column, and resolves revenue to 145,000,000, the amount
\* of the 'Total Revenue' row, not the 60,000,000 of 'Cost of Sales'.
C24_SampleTableAccepted ==
  SampleLoaded =>
    /\ ev.load.ok /\ ev.load.error = "none"
    /\ MatchingColumns(SampleTable, LabelSynonyms) = {1}
    /\ MatchingColumns(SampleTable, AmountSynonyms) = {2}
    /\ ev.load = ResolvedWith(tool, SampleTable, 1, 2)
    /\ ev.load.total_revenue = Finite(145000000)

C24_Witness ==
  SampleLoaded /\ ev.load.ok /\ ev.load.total_revenue = Finite(145000000) /\ ev.client

(***************************************************************************)
(* load_financial_data: rows and columns that match more than they should  *)
(***************************************************************************)
\* The rows of table f whose label, in the label column the loader takes, is
\* exactly a revenue keyword, letter case and surrounding blanks ignored.
ExactRevenueRows(f) ==
  {i \in 1..Len(f.rows) :
     lower(strip(f.rows[i][MinOf(MatchingColumns(f, LabelSynonyms))])) \in RevenueKeywords}

\* C25: when the table has a row whose label is exactly a revenue keyword, the
\* revenue load_financial_data resolves is the amount of such a row, whatever
\* the order of the rows; it is not the amount of a row such as 'Cost of Sales'
\* whose label only contains the keyword.
C25_ExactLabelWins ==
  (LoadedTable /\ ev.load.ok /\ ExactRevenueRows(ev.load.file) # {}) =>
    \E i \in ExactRevenueRows(ev.load.file) :
      ev.load.total_revenue
        = ParseFloat(ev.load.file.rows[i][MinOf(MatchingColumns(ev.load.file, AmountSynonyms))]).val

\* C26: when load_financial_data finds a label column and an amount column,
\* they are two different columns; a header that matches both synonym sets
\* ('Cost Item') is not taken for both roles.
C26_DistinctColumns ==
  (LoadedTable /\ ev.load.read
     /\ MatchingColumns(ev.load.file, LabelSynonyms) # {}
     /\ MatchingColumns(ev.load.file, AmountSynonyms) # {}) =>
    FirstColumn(ev.load.file.cols, metric_col_names)
      # FirstColumn(ev.load.file.cols, amount_col_names)

(***************************************************************************)
(* The tax calculators: which branch of the display a report takes         *)
(***************************************************************************)
AssessmentSections == {"profit_tax", "vat", "compliance", "growth"}

\* C27: in nigerian_taxcalc.py a report received from a successful,
\* schema-valid completion is displayed with its profit-tax, VAT and
\* compliance sections and never through the SYSTEM ERROR branch, whatever its
\* compliance_recommendation says and whichever member its compliance_status is.
C27_ErrorBranchOnlyForFallback ==
  RemoteAssessment =>
    /\ "SYSTEM ERROR" \notin ev.out
    /\ {"profit_tax", "vat", "compliance"} \subseteq ev.out

\* C28: in both tax calculators every fallback (failed load, failed client
\* construction, failed or invalid completion) is displayed through the
\* SYSTEM ERROR branch with its reason, which is not empty, and none of the
\* assessment sections with its zero amounts is printed.
C28_FallbackShownAsError ==
  (Assessed /\ ev.ret = "fallback") =>
    /\ "SYSTEM ERROR" \in ev.out
    /\ ev.out \cap AssessmentSections = {}
    /\ report.compliance_recommendation # ""
    /\ pc = "AwaitingContinuation"

C28_Witness ==
  /\ Assessed /\ ev.ret = "fallback" /\ ev.failure = "call"
  /\ "SYSTEM ERROR" \in ev.out

(***************************************************************************)
(* advise.py, nigerian_advisor.py: the next_query buffer                   *)
(***************************************************************************)
\* The line read in the step just taken is a question typed at the
\* continuation prompt: not empty and not an exit keyword.
QuestionAtContinuation ==
  /\ ev'.prompt = "continuation" /\ ev'.input # EOF
  /\ strip(ev'.input) # ""
  /\ lower(strip(ev'.input)) \notin {"no", "n", "quit", "exit", "q"}

\* What one step of an advisor loop does with the buffer.
BufferStep ==
  tool \in AdvisorTools =>
    /\ QuestionAtContinuation =>
         next_query' = <<strip(ev'.input)>> /\ pc' = "AwaitingInput"
    /\ next_query # None =>
         ev'.prompt = "buffer" /\ ev'.input = next_query[1] /\ next_query' = None
    /\ ev'.prompt = "buffer" => next_query # None
    /\ ev'.prompt = "primary" => next_query = None /\ next_query' = None
    /\ pc' = "Done" => next_query' = None

\* C29: in the advisor loops a question typed at the continuation prompt is
\* stored in next_query; the step after it is the iteration that takes the
\* stored text as its query without reading the primary prompt and empties the
\* buffer, so the text is handled once; the buffer is empty whenever the
\* primary prompt is read and when the loop has ended.
C29_BufferedQuery == [][BufferStep]_vars

C29_Witness ==
  /\ tool \in AdvisorTools /\ ev.prompt = "buffer" /\ ev.fn /\ ev.ret = "remote"
  /\ next_query = None /\ pc = "AwaitingContinuation"

(***************************************************************************)
(* analyst.py: what reaches get_business_analysis                          *)
(***************************************************************************)
\* x > 0 and x >= 0 on floats (every comparison with nan is False)
FloatPositive(x) == x.kind # "nan" /\ x.v > 0
FloatNonNegative(x) == x.kind # "nan" /\ x.v >= 0

\* C30: analyst.py calls get_business_analysis only with a non-empty industry,
\* a revenue greater than 0 and total costs and bank balance that are not
\* negative; an iteration with an empty industry or with revenue 0 goes back
\* to the industry prompt without a call and without the continuation prompt.
C30_AnalysisPreconditions ==
  tool = "analyst" =>
    /\ ev.fn =>
         /\ industry # ""
         /\ FloatPositive(nums[1])
         /\ FloatNonNegative(nums[2]) /\ FloatNonNegative(nums[3])
    /\ (ev.prompt = "primary" /\ ev.input # EOF /\ strip(ev.input) = "") =>
         ~ev.fn /\ ~ev.client /\ pc = "AwaitingInput"
    /\ "zero_revenue" \in ev.out =>
         ~ev.fn /\ ~ev.client /\ pc = "AwaitingInput"

====
